---- MODULE Spec2Model ----
(***************************************************************************)
(* Cicada population simulation (cicada.py).                               *)
(*                                                                         *)
(* An Ecosystem keeps, for every genotype (an emergence period), a list of *)
(* cohort counts.  tick() pops the mature cohort, ages the others, calls   *)
(* breed() on the emergent adults and appends the offspring.  The base     *)
(* class's breed() raises NotImplementedError; three subclasses override   *)
(* it: HybridModel, Proportional, RealSex.                                 *)
(*                                                                         *)
(* Numbers.  Python mixes ints and floats here (n/g, the rates, n1*n2/tot).*)
(* Every number of the model is a double, and every arithmetic operation   *)
(* rounds as Python's does, so that math.floor sees the value the program  *)
(* sees: 9 * (9/15) * 5 is 26.999999999999996 and its floor is 26.         *)
(***************************************************************************)
EXTENDS Integers, Sequences, FiniteSets, TLC

VARIABLES
    cls,                    \* self.__class__: which breed() is bound
    genotype,               \* key order of the dict self.counts
    counts,                 \* self.counts: genotype -> list of cohort counts
    gen,                    \* self.gen
    larval_survival_rate,   \* self.larval_survival_rate
    emergence_success_rate, \* self.emergence_success_rate
    clutch_rate,            \* self.clutch_rate
    emergent,               \* the list handed to the latest breed() call
    adults,                 \* RealSex.breed: the list after random.shuffle
    offspring,              \* the mapping returned by the latest breed() call
    raised,                 \* exception raised by the latest call, or "none"
    called                  \* which operation ran last: "init", "tick", "breed"

vars == <<cls, genotype, counts, gen, larval_survival_rate,
          emergence_success_rate, clutch_rate, emergent, adults, offspring,
          raised, called>>

----------------------------------------------------------------------------
(* Bounds of the model *)

MaxInit == 4      \* initial population n of a genotype ranges over 0..MaxInit
MaxCount == 16    \* tick() is explored while every cohort count stays <= MaxCount
MaxAdults == 5    \* RealSex: every shuffle explored for at most MaxAdults adults
MaxGen == 6       \* number of tick() calls explored
MaxEmerge == 3    \* standalone breed(): emergent counts range over 0..MaxEmerge

----------------------------------------------------------------------------
(* Python numbers.  An int below 2^53 and a float are both IEEE-754 doubles  *)
(* here: <<m, e>> stands for m * 2^e, with m a natural number written as its *)
(* base-2^14 digits, least significant first, and m odd (zero is <<<<>>, 0>>).*)
(* Every operation rounds its exact result to 53 significant bits, ties to   *)
(* even, as the hardware does; exponent overflow and subnormals are not      *)
(* modelled; divisors stay below 2^17 and math.floor results below 2^31.      *)

Precision == 53

Base == 2^14

RECURSIVE BigFromInt(_)
BigFromInt(n) == IF n = 0 THEN <<>> ELSE <<n % Base>> \o BigFromInt(n \div Base)

RECURSIVE BigToInt(_)
BigToInt(N) == IF N = <<>> THEN 0 ELSE Head(N) + Base * BigToInt(Tail(N))

RECURSIVE AddCarry(_, _, _)
AddCarry(X, Y, c) ==
    IF X = <<>> /\ Y = <<>> THEN (IF c = 0 THEN <<>> ELSE <<c>>)
    ELSE LET a == IF X = <<>> THEN 0 ELSE Head(X)
             b == IF Y = <<>> THEN 0 ELSE Head(Y)
             s == a + b + c
         IN  <<s % Base>> \o AddCarry(IF X = <<>> THEN X ELSE Tail(X),
                                      IF Y = <<>> THEN Y ELSE Tail(Y), s \div Base)

BigAdd(X, Y) == AddCarry(X, Y, 0)

\* X * a + c for one digit a
RECURSIVE MulDigit(_, _, _)
MulDigit(X, a, c) ==
    IF X = <<>> THEN (IF c = 0 THEN <<>> ELSE <<c>>)
    ELSE LET p == Head(X) * a + c
         IN  <<p % Base>> \o MulDigit(Tail(X), a, p \div Base)

RECURSIVE BigMul(_, _)
BigMul(X, Y) ==
    IF X = <<>> \/ Y = <<>> THEN <<>>
    ELSE BigAdd(MulDigit(Y, Head(X), 0),
                IF Tail(X) = <<>> THEN <<>> ELSE <<0>> \o BigMul(Tail(X), Y))

RECURSIVE Trim(_)
Trim(N) ==
    IF N = <<>> THEN N
    ELSE IF N[Len(N)] = 0 THEN Trim(SubSeq(N, 1, Len(N) - 1)) ELSE N

RECURSIVE IntBits(_)
IntBits(n) == IF n = 0 THEN 0 ELSE 1 + IntBits(n \div 2)

BitLen(N) == IF N = <<>> THEN 0 ELSE 14 * (Len(N) - 1) + IntBits(N[Len(N)])

ShiftLeft(N, k) ==
    IF N = <<>> THEN N
    ELSE [i \in 1..(k \div 14) |-> 0] \o MulDigit(N, 2^(k % 14), 0)

ShiftRight(N, k) ==
    LET q == k \div 14
        t == k % 14
        D == IF q >= Len(N) THEN <<>> ELSE SubSeq(N, q + 1, Len(N))
    IN  Trim([i \in 1..Len(D) |->
                (D[i] \div 2^t)
                + (IF i < Len(D) THEN (D[i + 1] % 2^t) * 2^(14 - t) ELSE 0)])

BitAt(N, i) ==
    IF i \div 14 >= Len(N) THEN 0 ELSE (N[(i \div 14) + 1] \div 2^(i % 14)) % 2

\* the k lowest bits of N are all 0
LowBitsZero(N, k) ==
    /\ \A i \in 1..(k \div 14) : i > Len(N) \/ N[i] = 0
    /\ (k \div 14) < Len(N) => N[(k \div 14) + 1] % 2^(k % 14) = 0

RECURSIVE IntTrailingZeros(_)
IntTrailingZeros(n) == IF n % 2 = 1 THEN 0 ELSE 1 + IntTrailingZeros(n \div 2)

RECURSIVE TrailingZeros(_)
TrailingZeros(N) ==
    IF Head(N) = 0 THEN 14 + TrailingZeros(Tail(N)) ELSE IntTrailingZeros(Head(N))

\* the double N * 2^e for N of at most 53 bits
Canon(N, e) ==
    IF N = <<>> THEN << <<>>, 0 >>
    ELSE LET z == TrailingZeros(N) IN <<ShiftRight(N, z), e + z>>

\* the double nearest to (N + s) * 2^e, 0 <= s < 1, s > 0 iff sticky
RoundTo(N, e, sticky) ==
    LET L == BitLen(N)
    IN  IF L <= Precision THEN Canon(N, e)
        ELSE LET k == L - Precision
                 M == ShiftRight(N, k)
                 guard == BitAt(N, k - 1) = 1
                 rest == sticky \/ ~LowBitsZero(N, k - 1)
                 up == guard /\ (rest \/ M[1] % 2 = 1)
             IN  Canon(IF up THEN BigAdd(M, <<1>>) ELSE M, e + k)

\* an int as a number
FromInt(n) == Canon(BigFromInt(n), 0)

\* x * y
Mul(x, y) == RoundTo(BigMul(x[1], y[1]), x[2] + y[2], FALSE)

\* x + y
Add(x, y) ==
    LET e == IF x[2] < y[2] THEN x[2] ELSE y[2]
    IN  RoundTo(BigAdd(ShiftLeft(x[1], x[2] - e), ShiftLeft(y[1], y[2] - e)), e, FALSE)

\* the digits of the quotient after the point, one base-2^14 digit at a time
RECURSIVE FracDigits(_, _, _, _)
FracDigits(Q, r, d, steps) ==
    IF steps = 0 THEN <<Q, r>>
    ELSE FracDigits(BigAdd(ShiftLeft(Q, 14), BigFromInt((r * Base) \div d)),
                    (r * Base) % d, d, steps - 1)

\* n / d for ints n >= 0 and 0 < d < 2^17 (true division, correctly rounded)
Div(n, d) ==
    LET steps == ((Precision + 1 + IntBits(d)) \div 14) + 1
        res == FracDigits(BigFromInt(n \div d), n % d, d, steps)
    IN  RoundTo(res[1], 0 - 14 * steps, res[2] # 0)

\* math.floor(x)
Floor(x) ==
    IF x[2] >= 0 THEN BigToInt(ShiftLeft(x[1], x[2]))
    ELSE BigToInt(ShiftRight(x[1], 0 - x[2]))

----------------------------------------------------------------------------
(* Inputs *)

Classes == {"Ecosystem", "HybridModel", "Proportional", "RealSex"}

GenotypeLists == {<<1>>, <<2>>, <<1, 2>>, <<2, 1>>, <<2, 3>>, <<1, 2, 3>>}

\* larval_survival_rate: 0, 0.5, 1
SurvivalRates == {FromInt(0), Div(1, 2), FromInt(1)}

\* emergence_success_rate: 0.5, 1
EmergenceRates == {Div(1, 2), FromInt(1)}

\* clutch_rate: 0, 0.3, 0.5, 1, 2
ClutchRates == {FromInt(0), Div(3, 10), Div(1, 2), FromInt(1), FromInt(2)}

Range(s) == {s[i] : i \in 1..Len(s)}

\* initial_size of the script's second world
ExampleSize == 10

\* The size n of every genotype: initial_size for all of them, or one
\* floor(random.normal(...)) draw per genotype when initial_random.
InitialSizes(keys) ==
    [Range(keys) -> 0..MaxInit] \cup {[g \in Range(keys) |-> ExampleSize]}

----------------------------------------------------------------------------
(* Ecosystem.__init__ *)

\* self.counts[g] for one genotype g with drawn size n:  [0]*g, then either
\* n/g in every slot (initial_saturated) or n in the last slot.
InitialQueue(g, n, initial_saturated) ==
    [i \in 1..g |-> IF initial_saturated THEN Div(n, g)
                    ELSE IF i = g THEN FromInt(n) ELSE FromInt(0)]

\* An empty defaultdict(lambda:0, {}).
EmptyOffspring == [g \in {} |-> FromInt(0)]

Init ==
    /\ cls \in Classes
    /\ genotype \in GenotypeLists
    /\ \E size \in InitialSizes(genotype), initial_saturated \in BOOLEAN :
         counts = [g \in Range(genotype) |->
                      InitialQueue(g, size[g], initial_saturated)]
    /\ gen = 0
    /\ larval_survival_rate \in SurvivalRates
    /\ emergence_success_rate \in EmergenceRates
    /\ clutch_rate \in ClutchRates
    /\ emergent = <<>>
    /\ adults = <<>>
    /\ offspring = EmptyOffspring
    /\ raised = "none"
    /\ called = "init"

----------------------------------------------------------------------------
(* The breeding strategies *)

\* tot_emergent = 0; for (g,n) in emergent: tot_emergent += n
RECURSIVE TotEmergent(_)
TotEmergent(em) ==
    IF em = <<>> THEN 0 ELSE em[1][2] + TotEmergent(Tail(em))

\* offspring[g] += v on a defaultdict with default 0
AddTo(off, g, v) ==
    IF g \in DOMAIN off THEN [off EXCEPT ![g] = Add(@, v)]
    ELSE off @@ (g :> Add(FromInt(0), v))

\* offspring[g] read with the default: 0 for an absent key
Lookup(off, g) == IF g \in DOMAIN off THEN off[g] ELSE FromInt(0)

Min(a, b) == IF a < b THEN a ELSE b

\* Mutants of ChildGenotype: the larger period; the mean period.
ChildGenotypeLarger(g1, g2) == IF g1 < g2 THEN g2 ELSE g1

ChildGenotypeMean(g1, g2) == (g1 + g2) \div 2

\* child_g = min(g1,g2)
ChildGenotype(g1, g2) == Min(g1, g2)

\* math.floor(breedpairs * self.clutch_rate * child_g), breedpairs = n1*n2/tot
HybridContribution(n1, n2, tot, clutch, child_g) ==
    LET breedpairs == Div(n1 * n2, tot)
    IN  FromInt(Floor(Mul(Mul(breedpairs, clutch), FromInt(child_g))))

\* the inner loop: for (g2, n2) in emergent
RECURSIVE HybridInner(_, _, _, _, _)
HybridInner(off, p1, rest, tot, clutch) ==
    IF rest = <<>> THEN off
    ELSE LET p2 == Head(rest)
             child_g == ChildGenotype(p1[1], p2[1])
         IN  HybridInner(AddTo(off, child_g,
                               HybridContribution(p1[2], p2[2], tot, clutch, child_g)),
                         p1, Tail(rest), tot, clutch)

\* the outer loop: for (g1, n1) in emergent
RECURSIVE HybridOuter(_, _, _, _, _)
HybridOuter(off, rest, em, tot, clutch) ==
    IF rest = <<>> THEN off
    ELSE HybridOuter(HybridInner(off, Head(rest), em, tot, clutch),
                     Tail(rest), em, tot, clutch)

HybridBreed(em, clutch) ==
    HybridOuter(EmptyOffspring, em, em, TotEmergent(em), clutch)

\* Mutant of ProportionalContribution: the share n/tot taken without the count n.
ProportionalContributionShareOnly(n, tot, clutch) ==
    FromInt(Floor(Mul(Div(n, tot), clutch)))

\* math.floor(n * (n / tot_emergent) * self.clutch_rate)
ProportionalContribution(n, tot, clutch) ==
    FromInt(Floor(Mul(Mul(FromInt(n), Div(n, tot)), clutch)))

\* for (g, n) in emergent: offspring[g] += ...
RECURSIVE ProportionalLoop(_, _, _, _)
ProportionalLoop(off, rest, tot, clutch) ==
    IF rest = <<>> THEN off
    ELSE ProportionalLoop(AddTo(off, Head(rest)[1],
                                ProportionalContribution(Head(rest)[2], tot, clutch)),
                          Tail(rest), tot, clutch)

ProportionalBreed(em, clutch) ==
    ProportionalLoop(EmptyOffspring, em, TotEmergent(em), clutch)

\* Mutant of DivisionFault: the division made ahead of the loop.
DivisionFaultEager(em) == TotEmergent(em) = 0

\* Both strategies divide by tot_emergent inside the loop over emergent only:
\* the division is executed, with a zero divisor, exactly when the list is
\* non-empty and all its counts are 0.
DivisionFault(em) == em # <<>> /\ TotEmergent(em) = 0

\* adults = []; for (g,n) in emergent: adults += [g]*n
RECURSIVE Flatten(_)
Flatten(em) ==
    IF em = <<>> THEN <<>>
    ELSE [i \in 1..em[1][2] |-> em[1][1]] \o Flatten(Tail(em))

CountOf(s, g) == Cardinality({i \in 1..Len(s) : s[i] = g})

\* random.shuffle(adults): any rearrangement of the list
Shuffles(s) ==
    {t \in [1..Len(s) -> Range(s)] : \A g \in Range(s) : CountOf(t, g) = CountOf(s, g)}

\* half = len(adults)//2
Half(s) == Len(s) \div 2

\* Mutant of Pairing: neighbours paired, adults[2i], adults[2i+1].
PairingAdjacent(s) == [i \in 1..Half(s) |-> <<2 * i - 1, 2 * i>>]

\* the index pairs the loop compares:  adults[i], adults[i+half]  (1-based here)
Pairing(s) == [i \in 1..Half(s) |-> <<i, i + Half(s)>>]

\* for i in range(half): if adults[i] == adults[i+half]: offspring[adults[i]] += clutch
RECURSIVE RealSexLoop(_, _, _, _)
RealSexLoop(off, s, pairs, clutch) ==
    IF pairs = <<>> THEN off
    ELSE LET a == s[Head(pairs)[1]]
             b == s[Head(pairs)[2]]
         IN  RealSexLoop(IF a = b THEN AddTo(off, a, clutch) ELSE off,
                         s, Tail(pairs), clutch)

RealSexBreed(shuffled, clutch) ==
    RealSexLoop(EmptyOffspring, shuffled, Pairing(shuffled), clutch)

\* What self.breed(emergent) raises: the base class always raises
\* NotImplementedError; HybridModel and Proportional raise on a zero divisor.
BreedRaises(c, em) ==
    IF c = "Ecosystem" THEN "NotImplementedError"
    ELSE IF c \in {"HybridModel", "Proportional"} /\ DivisionFault(em)
         THEN "ZeroDivisionError" ELSE "none"

\* What self.breed(emergent) returns, by class, when it does not raise
\* (Ecosystem.breed never returns a mapping); shuffled is the outcome of
\* random.shuffle.
Breed(c, em, shuffled, clutch) ==
    CASE c = "HybridModel"  -> HybridBreed(em, clutch)
      [] c = "Proportional" -> ProportionalBreed(em, clutch)
      [] c = "RealSex"      -> RealSexBreed(shuffled, clutch)
      [] c = "Ecosystem"    -> EmptyOffspring

\* The lists random.shuffle may leave in adults (none is built by the others).
ShuffleOutcomes(c, em) ==
    IF c = "RealSex" THEN Shuffles(Flatten(em)) ELSE {<<>>}

----------------------------------------------------------------------------
(* Ecosystem.tick *)

\* e = math.floor(self.counts[g].pop(0) * self.emergence_success_rate)
EmergentCount(q, rate) == Floor(Mul(Head(q), rate))

\* Mutant of PopFront: pop() in place of pop(0).
PopBack(q) == SubSeq(q, 1, Len(q) - 1)

\* what pop(0) leaves
PopFront(q) == Tail(q)

\* for i in range(len(q)): q[i] = math.floor(q[i] * self.larval_survival_rate)
Age(q, rate) == [i \in 1..Len(q) |-> FromInt(Floor(Mul(q[i], rate)))]

\* Mutant of EmergentList: (g,e) appended whatever e is.
RECURSIVE EmergentListAll(_, _, _)
EmergentListAll(keys, cnt, rate) ==
    IF keys = <<>> THEN <<>>
    ELSE << <<Head(keys), EmergentCount(cnt[Head(keys)], rate)>> >>
         \o EmergentListAll(Tail(keys), cnt, rate)

\* emergent, built in the dict's key order: (g,e) appended when e > 0
RECURSIVE EmergentList(_, _, _)
EmergentList(keys, cnt, rate) ==
    IF keys = <<>> THEN <<>>
    ELSE LET g == Head(keys)
             e == EmergentCount(cnt[g], rate)
         IN  (IF e > 0 THEN << <<g, e>> >> ELSE <<>>)
             \o EmergentList(Tail(keys), cnt, rate)

\* self.counts after the first loop of tick()
Underground(cnt, rate) ==
    [g \in DOMAIN cnt |-> Age(PopFront(cnt[g]), rate)]

\* Mutants of Appended: a cohort appended only for the genotypes that have an
\* entry in offspring; the offspring of all genotypes pooled into every queue.
AppendedBredOnly(cnt, off) ==
    [g \in DOMAIN cnt |-> IF g \in DOMAIN off THEN Append(cnt[g], off[g]) ELSE cnt[g]]

RECURSIVE PooledOffspring(_, _)
PooledOffspring(off, keys) ==
    IF keys = {} THEN FromInt(0)
    ELSE LET k == CHOOSE x \in keys : TRUE
         IN  Add(off[k], PooledOffspring(off, keys \ {k}))

AppendedPooled(cnt, off) ==
    [g \in DOMAIN cnt |-> Append(cnt[g], PooledOffspring(off, DOMAIN off))]

\* self.counts after the second loop: offspring[g] appended to every queue
Appended(cnt, off) ==
    [g \in DOMAIN cnt |-> Append(cnt[g], Lookup(off, g))]

\* the bound of the exploration: no cohort count above MaxCount
WithinCount(cnt) ==
    \A g \in DOMAIN cnt : \A i \in 1..Len(cnt[g]) : Floor(cnt[g][i]) <= MaxCount

\* One call of tick().  An exception of breed() leaves tick() after the first
\* loop (the queues popped and aged, nothing appended), and the script's loop
\* (line 182) ends with it: no tick follows one.
Tick ==
    /\ gen < MaxGen
    /\ raised = "none"
    /\ LET em == EmergentList(genotype, counts, emergence_success_rate)
           under == Underground(counts, larval_survival_rate)
       IN  /\ TotEmergent(em) <= (IF cls = "RealSex" THEN MaxAdults ELSE MaxCount)
           /\ \E shuffled \in ShuffleOutcomes(cls, em) :
                LET off == Breed(cls, em, shuffled, clutch_rate)
                    err == BreedRaises(cls, em)
                IN  /\ gen' = gen + 1
                    /\ emergent' = em
                    /\ adults' = shuffled
                    /\ raised' = err
                    /\ offspring' = IF err = "none" THEN off ELSE EmptyOffspring
                    /\ counts' = IF err = "none" THEN Appended(under, off) ELSE under
                    /\ WithinCount(counts')
    /\ called' = "tick"
    /\ UNCHANGED <<cls, genotype, larval_survival_rate, emergence_success_rate,
                   clutch_rate>>

Next == Tick

Spec == Init /\ [][Next]_vars

----------------------------------------------------------------------------
(* breed() called on its own: the strategies as functions of the emergent   *)
(* list.  The ecosystem is one constructed with genotype = [] and default   *)
(* rates, so that only cls and clutch_rate matter.                          *)

\* emergent lists of particular interest: the two quoted for HybridModel and
\* Proportional; lists whose products are rounded below an integer
\* (9 * (9/15) * 5, 10 * (10/15) * 0.3, 11*11/15 * 5 * 3); and twelve adults
\* of one genotype, six pairs whatever the shuffle.
ExampleInputs ==
    { << <<3, 10>>, <<5, 6>> >>, << <<5, 6>>, <<3, 10>> >>, << <<4, 8>> >>,
      << <<1, 9>>, <<2, 6>> >>, << <<1, 10>>, <<2, 5>> >>,
      << <<3, 11>>, <<5, 4>> >>, << <<1, 12>> >> }

EmergentInputs ==
    {<<>>} \cup ExampleInputs \cup
    UNION { { [i \in 1..Len(gl) |-> <<gl[i], n[i]>>] :
                n \in [1..Len(gl) -> 0..MaxEmerge] } : gl \in GenotypeLists }

\* clutch_rate: those above and 0.1, 5
BreedClutchRates == ClutchRates \cup {Div(1, 10), FromInt(5)}

InitBreed ==
    /\ cls \in Classes
    /\ genotype = <<>>
    /\ counts = [g \in {} |-> <<>>]
    /\ gen = 0
    /\ larval_survival_rate = FromInt(1)
    /\ emergence_success_rate = FromInt(1)
    /\ clutch_rate \in BreedClutchRates
    /\ emergent \in EmergentInputs      \* the argument of the call to come
    /\ adults = <<>>
    /\ offspring = EmptyOffspring
    /\ raised = "none"
    /\ called = "init"

\* self.breed(emergent), once per constructed object and argument.  RealSex:
\* every shuffle of at most MaxAdults adults, and the adults of one genotype
\* in any number (their shuffles are all the same list).
BreedCall ==
    /\ called = "init"
    /\ LET em == emergent
       IN
         /\ cls = "RealSex" => (TotEmergent(em) <= MaxAdults \/ Len(em) = 1)
         /\ \E shuffled \in ShuffleOutcomes(cls, em) :
              LET err == BreedRaises(cls, em)
              IN  /\ emergent' = em
                  /\ adults' = shuffled
                  /\ raised' = err
                  /\ offspring' = IF err = "none"
                                  THEN Breed(cls, em, shuffled, clutch_rate)
                                  ELSE EmptyOffspring
    /\ called' = "breed"
    /\ UNCHANGED <<cls, genotype, counts, gen, larval_survival_rate,
                   emergence_success_rate, clutch_rate>>

NextBreed == BreedCall

BreedSpec == InitBreed /\ [][NextBreed]_vars

----------------------------------------------------------------------------
(* Properties *)

Genotypes == DOMAIN counts

\* the classes that implement breed()
Strategies == {"HybridModel", "Proportional", "RealSex"}

IsZero(x) == x[1] = <<>>

Positive(x) == x[1] # <<>>

\* m * 2^e with m odd is an integer exactly when e >= 0
IsIntegral(x) == x[1] = <<>> \/ x[2] >= 0

\* x is a number >= 0 as the model writes them: digits of an odd natural
\* number and an exponent, or zero.  (No operation of the program subtracts
\* or negates; the numbers carry no sign.)
IsNonNegative(x) ==
    /\ x \in Seq(Nat) \X Int
    /\ \A i \in 1..Len(x[1]) : x[1][i] \in 0..(Base - 1)
    /\ x[1] = <<>> \/ x[1][1] % 2 = 1
    /\ BitLen(x[1]) <= Precision

\* every cohort count of genotype g is 0
Extinct(g) == \A i \in 1..Len(counts[g]) : IsZero(counts[g][i])

RECURSIVE SumOver(_, _)
SumOver(S, f) ==
    IF S = {} THEN 0
    ELSE LET x == CHOOSE y \in S : TRUE IN f[x] + SumOver(S \ {x}, f)

DistinctPositive(em) ==
    /\ \A i \in 1..Len(em) : em[i][2] > 0
    /\ \A i, j \in 1..Len(em) : em[i][1] = em[j][1] => i = j

\* C1: after any number of tick() calls, under each of the three classes,
\* every genotype's queue has exactly period-many elements and every element
\* is >= 0.
C1_QueueShape ==
    cls \in Strategies =>
        \A g \in Genotypes :
            /\ Len(counts[g]) = g
            /\ \A i \in 1..Len(counts[g]) : IsNonNegative(counts[g][i])

C1_Witness ==
    /\ cls = "HybridModel"
    /\ gen >= 3
    /\ Cardinality(Genotypes) >= 2
    /\ \A g \in Genotypes : ~Extinct(g)

\* C2: HybridModel.breed on distinct genotypes with positive counts: for every
\* genotype c, offspring[c] is the sum over all ordered pairs of emergent
\* entries (self-pairs once, cross pairs in both directions) whose smaller
\* genotype is c of floor((n1*n2/T) * clutch_rate * c), floored per pair; for
\* {(3,10),(5,6)} and clutch_rate 2, offspring[3] = 37 + 22 + 22.
C2_HybridSum ==
    (called = "breed" /\ cls = "HybridModel" /\ DistinctPositive(emergent)) =>
        LET em == emergent
            T == SumOver(1..Len(em), [i \in 1..Len(em) |-> em[i][2]])
            Idx == (1..Len(em)) \X (1..Len(em))
            smaller(p) == IF em[p[1]][1] <= em[p[2]][1]
                          THEN em[p[1]][1] ELSE em[p[2]][1]
            term == [p \in Idx |->
                       LET n1 == em[p[1]][2]
                           n2 == em[p[2]][2]
                       IN  Floor(Mul(Mul(Div(n1 * n2, T), clutch_rate),
                                     FromInt(smaller(p))))]
        IN  /\ raised = "none"
            /\ \A c \in 1..5 :
                 Lookup(offspring, c) =
                    FromInt(SumOver({p \in Idx : smaller(p) = c}, term))
            /\ (Range(em) = {<<3, 10>>, <<5, 6>>} /\ clutch_rate = FromInt(2)) =>
                 /\ Lookup(offspring, 3) = FromInt(37 + 22 + 22)
                 /\ Lookup(offspring, 5) = FromInt(22)

C2_Witness ==
    /\ called = "breed"
    /\ cls = "HybridModel"
    /\ emergent = << <<3, 10>>, <<5, 6>> >>
    /\ clutch_rate = FromInt(2)
    /\ Lookup(offspring, 3) = FromInt(81)

\* C3: Proportional.breed on distinct genotypes with positive counts:
\* offspring[g] = floor(n * (n/T) * clutch_rate) for every emergent (g,n) and 0
\* for every genotype that did not emerge; {(4,8)} with clutch_rate 5 gives 40.
C3_ProportionalShare ==
    (called = "breed" /\ cls = "Proportional" /\ DistinctPositive(emergent)) =>
        LET em == emergent
            T == SumOver(1..Len(em), [i \in 1..Len(em) |-> em[i][2]])
        IN  /\ raised = "none"
            /\ \A i \in 1..Len(em) :
                 Lookup(offspring, em[i][1]) =
                    FromInt(Floor(Mul(Mul(FromInt(em[i][2]), Div(em[i][2], T)),
                                      clutch_rate)))
            /\ \A g \in 1..5 :
                 (\A i \in 1..Len(em) : em[i][1] # g) => IsZero(Lookup(offspring, g))
            /\ (em = << <<4, 8>> >> /\ clutch_rate = FromInt(5)) =>
                 Lookup(offspring, 4) = FromInt(40)

C3_Witness ==
    /\ called = "breed"
    /\ cls = "Proportional"
    /\ emergent = << <<4, 8>> >>
    /\ clutch_rate = FromInt(5)
    /\ offspring = (4 :> FromInt(40))

\* the positions i of the first half whose adult and the adult at i + half
\* are both of genotype g
MatchedPairs(s, g) ==
    {i \in 1..(Len(s) \div 2) : s[i] = g /\ s[i + (Len(s) \div 2)] = g}

\* how RealSex.breed pairs the shuffled adults: floor(N/2) pairs, pair i
\* joining positions i and i + floor(N/2); nobody is in two pairs; for odd N
\* exactly the last position is unpaired and for even N none.
PairedByHalves ==
    LET N == Len(adults)
        pairs == Pairing(adults)
        paired == {pairs[i][1] : i \in 1..Len(pairs)}
                    \cup {pairs[i][2] : i \in 1..Len(pairs)}
    IN  /\ N = SumOver(1..Len(emergent),
                       [i \in 1..Len(emergent) |-> emergent[i][2]])
        /\ \A k \in 1..Len(emergent) :
             Cardinality({i \in 1..N : adults[i] = emergent[k][1]}) = emergent[k][2]
        /\ Len(pairs) = N \div 2
        /\ \A i \in 1..Len(pairs) : pairs[i] = <<i, i + (N \div 2)>>
        /\ Cardinality(paired) = 2 * Len(pairs)
        /\ (1..N) \ paired = (IF N % 2 = 1 THEN {N} ELSE {})

\* c added k times to 0, one addition after the other
RECURSIVE AddedTimes(_, _)
AddedTimes(c, k) == IF k = 0 THEN FromInt(0) ELSE Add(AddedTimes(c, k - 1), c)

\* C4 as stated: RealSex.breed, whatever list the shuffle leaves: floor(N/2)
\* pairs, pair i joining positions i and i + floor(N/2); nobody is in two
\* pairs; for odd N exactly the last position is unpaired and for even N none;
\* offspring[g] is clutch_rate times the number of pairs whose two members are
\* both g.
C4_RealSexProduct ==
    (called = "breed" /\ cls = "RealSex") =>
        /\ PairedByHalves
        /\ \A g \in 1..3 :
             Lookup(offspring, g) =
                Mul(clutch_rate, FromInt(Cardinality(MatchedPairs(adults, g))))

\* C4 amended: the pairing as stated; offspring[g] is the running sum of one
\* clutch_rate per pair whose two members are both g, which is clutch_rate
\* times the number of such pairs when clutch_rate is an integer or the pairs
\* are at most 5.
C4_RealSexPairs ==
    (called = "breed" /\ cls = "RealSex") =>
        /\ PairedByHalves
        /\ \A g \in 1..3 :
             LET k == Cardinality(MatchedPairs(adults, g))
             IN  /\ Lookup(offspring, g) = AddedTimes(clutch_rate, k)
                 /\ (k <= 5 \/ IsIntegral(clutch_rate)) =>
                       Lookup(offspring, g) = Mul(clutch_rate, FromInt(k))

\* twelve adults of one genotype with clutch_rate 0.1: six matched pairs and
\* 0.1 + 0.1 + 0.1 + 0.1 + 0.1 + 0.1, which is 0.6 and not 0.1 * 6
C4_Witness ==
    /\ called = "breed"
    /\ cls = "RealSex"
    /\ emergent = << <<1, 12>> >>
    /\ clutch_rate = Div(1, 10)
    /\ Cardinality(MatchedPairs(adults, 1)) = 6
    /\ offspring[1] = Div(6, 10)
    /\ offspring[1] # Mul(Div(1, 10), FromInt(6))

\* C5: after every tick(), under each class and for any clutch_rate >= 0,
\* every cohort count in every queue is an integer.
C5_IntegralCounts ==
    (gen >= 1 /\ cls \in Strategies) =>
        \A g \in Genotypes : \A i \in 1..Len(counts[g]) : IsIntegral(counts[g][i])

\* C6: under Proportional and RealSex a genotype whose cohort counts are all 0
\* has all cohort counts 0 after every further tick().
C6_ExtinctionPermanent ==
    [][\A g \in Genotypes :
          (cls \in {"Proportional", "RealSex"} /\ Extinct(g)) => Extinct(g)']_vars

\* g is extinct after a tick in which two other genotypes emerged and bred
C6_Witness ==
    /\ cls \in {"Proportional", "RealSex"}
    /\ called = "tick"
    /\ gen >= 2
    /\ Len(emergent) >= 2
    /\ \E g \in DOMAIN offspring : Positive(offspring[g])
    /\ \E g \in Genotypes : Extinct(g)

\* Two adults of different genotypes, neither of them g, are in the emergent
\* list of the tick just made, and that tick produced hybrid offspring.
CrossBredWithout(g) ==
    /\ called = "tick"
    /\ \E i, j \in 1..Len(emergent) :
          /\ emergent[i][1] # emergent[j][1]
          /\ emergent[i][1] # g
          /\ emergent[j][1] # g
          /\ Positive(Lookup(offspring, ChildGenotype(emergent[i][1], emergent[j][1])))

\* C7 as stated: under HybridModel a genotype g with every cohort count 0 holds
\* a positive count after a later tick() in which two emergent adults of
\* genotypes other than g breed.
C7_Reappears ==
    [][\A g \in Genotypes :
          (cls = "HybridModel" /\ Extinct(g) /\ CrossBredWithout(g)') => ~Extinct(g)']_vars

\* C7 amended: under HybridModel too, a genotype whose cohort counts are all 0
\* has all cohort counts 0 after every further tick(), whatever breeds: the
\* child genotype min(g1,g2) is the genotype of one of the two parents.
C7_HybridExtinctionPermanent ==
    [][\A g \in Genotypes : (cls = "HybridModel" /\ Extinct(g)) => Extinct(g)']_vars

C7_Witness ==
    /\ cls = "HybridModel"
    /\ \E g \in Genotypes : Extinct(g) /\ CrossBredWithout(g)

\* no genotype has a positive emergent count floor(front * emergence_success_rate)
NoEmergence ==
    \A g \in Genotypes : Floor(Mul(counts[g][1], emergence_success_rate)) <= 0

\* C8: a tick() in which no genotype has a positive emergent count hands breed
\* the empty list; breed completes without a division fault and returns an
\* empty mapping; tick() appends exactly one cohort of value 0 to every queue.
C8_ZeroEmergenceTick ==
    [][(cls \in Strategies /\ called' = "tick" /\ gen' = gen + 1 /\ NoEmergence) =>
          /\ emergent' = <<>>
          /\ raised' = "none"
          /\ DOMAIN offspring' = {}
          /\ \A g \in Genotypes :
               /\ Len(counts'[g]) = g
               /\ IsZero(counts'[g][g])
               /\ \A i \in 1..(g - 1) :
                    counts'[g][i] =
                       FromInt(Floor(Mul(counts[g][i + 1], larval_survival_rate)))]_vars

\* a zero-emergence tick of HybridModel with larvae still underground
C8_Witness ==
    /\ cls = "HybridModel"
    /\ called = "tick"
    /\ emergent = <<>>
    /\ raised = "none"
    /\ \A g \in Genotypes : IsZero(counts[g][g])
    /\ \E g \in Genotypes : ~Extinct(g)

\* C9 as stated: every invocation of a breeding strategy made by tick()
\* receives a non-empty emergent list in which every count is > 0, so that
\* T > 0.
C9_NonEmptyEmergent ==
    (called = "tick" /\ cls \in Strategies) =>
        /\ emergent # <<>>
        /\ \A i \in 1..Len(emergent) : emergent[i][2] > 0
        /\ SumOver(1..Len(emergent), [i \in 1..Len(emergent) |-> emergent[i][2]]) > 0

\* C9 amended: every invocation of a breeding strategy made by tick() receives
\* an emergent list in which every count is > 0 and no genotype occurs twice;
\* the list may be empty (then T = 0 and nothing is divided), and T > 0
\* whenever it is not.
C9_PositiveEntries ==
    (called = "tick" /\ cls \in Strategies) =>
        /\ DistinctPositive(emergent)
        /\ \A i \in 1..Len(emergent) : emergent[i][1] \in Genotypes
        /\ emergent # <<>> =>
             SumOver(1..Len(emergent), [i \in 1..Len(emergent) |-> emergent[i][2]]) > 0
        /\ raised = "none"

\* a tick with a genotype that emerged and one whose emergent count was 0
C9_Witness ==
    /\ called = "tick"
    /\ cls \in Strategies
    /\ emergent # <<>>
    /\ Len(emergent) < Cardinality(Genotypes)

\* C10: one tick() turns each queue q of period p into q' with
\* q'[i-1] = floor(q[i] * larval_survival_rate) for i in 1..p-1 (0-based) and
\* q'[p-1] = offspring[g], 0 without an entry, the offspring mapping being
\* breed's result on the emergent set {(g, e_g) : e_g = floor(q_g[0] *
\* emergence_success_rate) > 0} of the pre-tick fronts.
C10_TickTransform ==
    [][(cls \in Strategies /\ called' = "tick" /\ gen' = gen + 1) =>
          /\ Range(emergent') =
                {<<g, Floor(Mul(counts[g][1], emergence_success_rate))>> :
                    g \in {h \in Genotypes :
                              Floor(Mul(counts[h][1], emergence_success_rate)) > 0}}
          /\ Len(emergent') = Cardinality(Range(emergent'))
          /\ raised' = "none"
          /\ offspring' = Breed(cls, emergent', adults', clutch_rate)
          /\ \A g \in Genotypes :
               /\ Len(counts'[g]) = g
               /\ \A i \in 1..(g - 1) :
                    counts'[g][i] =
                       FromInt(Floor(Mul(counts[g][i + 1], larval_survival_rate)))
               /\ counts'[g][g] =
                     (IF g \in DOMAIN offspring' THEN offspring'[g] ELSE FromInt(0))]_vars

\* a tick that aged a non-zero cohort and appended non-zero offspring
C10_Witness ==
    /\ called = "tick"
    /\ cls \in Strategies
    /\ gen >= 2
    /\ \E g \in Genotypes :
          /\ g >= 2
          /\ Positive(counts[g][g])
          /\ Positive(counts[g][g - 1])
    /\ \E g \in Genotypes : g = 1 /\ counts[g] = <<Lookup(offspring, g)>>

====
